---- MODULE Spec2Model ----
(***************************************************************************)
(* A model of the AI PDF Summary Vault (src/app.py).                       *)
(*                                                                         *)
(* Text is modelled as a sequence of one-character strings, so that        *)
(* slicing, joining, lower-casing and substring search are computed        *)
(* character by character, as Python computes them.                        *)
(*                                                                         *)
(* Specifications:                                                         *)
(*   Spec        script runs (upload loop, then the SELECT of the search   *)
(*               section) of concurrent Streamlit sessions against one     *)
(*               documents table                                           *)
(*   SpecSeq     the same script runs, one at a time                       *)
(*   SpecChunk   chunk_text applied to a text and a maximum length         *)
(*   SpecSummary ai_summary applied to a text                              *)
(*   SpecAuth    the Login / Signup form and Logout                        *)
(*   SpecSearch  the display loop applied to fetched docs and a query      *)
(* Each specification moves its own variables and leaves the others at     *)
(* their initial values.                                                   *)
(***************************************************************************)
EXTENDS Integers, Sequences, FiniteSets, TLC

(***************************************************************************)
(* Bounds of the model.                                                    *)
(***************************************************************************)
\* Files handed to st.file_uploader in total, over all script runs.
MaxUploads == 3
\* The wall clock shows the instants 0 .. MaxTick, in half seconds.
MaxTick == 1
\* chunk_text is applied to texts of up to MaxLen characters and to maximum
\* lengths of 1 .. MaxM.
MaxLen == 4
MaxM == 3
\* ai_summary is applied to texts of up to MaxChunks + 1 chunks.
MaxChunks == 6
\* The display loop runs over up to MaxDocs docs with summaries of up to
\* MaxSummaryLen characters and a query of up to MaxQueryLen characters.
MaxDocs == 2
MaxSummaryLen == 2
MaxQueryLen == 2

(***************************************************************************)
(* Program constants.                                                      *)
(***************************************************************************)
\* chunk_text's default max_chars.
max_chars == 2000
\* ai_summary summarizes chunks[:5].
chunk_cap == 5

(***************************************************************************)
(* Python helpers.                                                         *)
(***************************************************************************)
Min(a, b) == IF a <= b THEN a ELSE b

\* None, for a local that holds no user, exception or message.
None == "None"

\* No digest yet (h before file_hash has run).
NoHash == <<>>

\* text[i:j] for 0 <= i <= j  (Python slice: j is clipped to len(text)).
Slice(text, i, j) == SubSeq(text, i + 1, Min(j, Len(text)))

\* list(range(0, n, step)) for step > 0.
RECURSIVE RangeFrom(_, _, _)
RangeFrom(i, n, step) ==
    IF i >= n THEN <<>> ELSE <<i>> \o RangeFrom(i + step, n, step)

Range0(n, step) == RangeFrom(0, n, step)

\* sep.join(parts): the parts in order, sep between consecutive parts.
RECURSIVE Join(_, _)
Join(sep, parts) ==
    IF parts = <<>> THEN <<>>
    ELSE IF Len(parts) = 1 THEN parts[1]
    ELSE parts[1] \o sep \o Join(sep, Tail(parts))

(***************************************************************************)
(* chunk_text and the summarizer.                                          *)
(***************************************************************************)
\* chunk_text with slices one character too long.
chunk_text_overlapping(text, m) ==
    LET starts == Range0(Len(text), m)
    IN  [k \in 1..Len(starts) |-> Slice(text, starts[k], starts[k] + m + 1)]

\* [text[i:i+max_chars] for i in range(0, len(text), max_chars)]
chunk_text(text, m) ==
    LET starts == Range0(Len(text), m)
    IN  [k \in 1..Len(starts) |-> Slice(text, starts[k], starts[k] + m)]

\* Every chunk, with no cap.
AllChunks(text) == chunk_text(text, max_chars)

\* chunks[:5]
FirstChunks(text) ==
    LET chunks == chunk_text(text, max_chars)
    IN  SubSeq(chunks, 1, Min(chunk_cap, Len(chunks)))

\* The external summarization pipeline, a deterministic text-to-text black
\* box.  Its stand-in keeps the first and the last character of its input,
\* so that summaries of different chunks can be told apart.
summarizer(c) == <<c[1], c[Len(c)]>>

\* One iteration of ai_summary's loop: summaries.append(summarizer(c)) for
\* the next chunk of chunks[:5].
SummarizeNext(text, summaries) ==
    Append(summaries, summarizer(FirstChunks(text)[Len(summaries) + 1]))

\* ai_summary's loop has run over every chunk of chunks[:5].
LoopDone(text, summaries) == Len(summaries) = Len(FirstChunks(text))

\* return " ".join(summaries)
JoinSummaries(summaries) == Join(<<" ">>, summaries)

(***************************************************************************)
(* Uploaded files.  A file's bytes either parse as a PDF with a sequence   *)
(* of pages, or do not parse at all.                                       *)
(***************************************************************************)
Alphabet == <<"a", "b", "c", "d", "e", "f", "g">>

\* A page of n characters of running text.
PageText(n) == [i \in 1..n |-> Alphabet[((i - 1) % Len(Alphabet)) + 1]]

\* "A": a PDF of one full text page and one scanned page (no text layer).
\* "B": a PDF of a single scanned page.
\* "X": bytes that are not a PDF.
FileBytes == {"A", "B", "X"}

Parses(bytes) == bytes \in {"A", "B"}

\* What page.extract_text() gives for a page without a text layer: nothing
\* (None or the empty string, which "or" turns into the empty string).
NoText == <<>>

Pages(bytes) ==
    CASE bytes = "A" -> <<PageText(max_chars), NoText>>
      [] bytes = "B" -> <<NoText>>

Uploads ==
    { [name |-> "a.pdf", bytes |-> "A"],
      [name |-> "b.pdf", bytes |-> "B"],
      [name |-> "x.pdf", bytes |-> "X"] }

\* What st.file_uploader hands to a script run: no file, or a batch of files.
Batches == UNION { [1..n -> Uploads] : n \in 0..MaxUploads }

Users == {"alice", "bob"}

Sessions == {"s1", "s2"}

\* hashlib.sha256(data).hexdigest(): a digest, distinct for distinct data.
Sha256(data) == <<"sha256", data>>

\* hashlib.sha256(file_bytes).hexdigest()
file_hash(bytes) == Sha256(bytes)

\* "\n".join([p.extract_text() or "" for p in reader.pages])
extract_text(bytes) ==
    LET pages == Pages(bytes)
    IN  Join(<<"\n">>,
             [k \in 1..Len(pages) |->
                 IF pages[k] = NoText THEN <<>> ELSE pages[k]])

(***************************************************************************)
(* datetime.now().isoformat() and SQLite's comparison of TEXT values.      *)
(* An instant is [sec, usec], a whole number of half seconds.  Of "YYYY-MM-DDTHH:MM:SS[.ffffff]" the model *)
(* keeps the seconds field and the fraction; the fields before them are    *)
(* the same for every instant of the model.                                *)
(***************************************************************************)
Digits == <<"0", "1", "2", "3", "4", "5", "6", "7", "8", "9">>

Digit(d) == Digits[(d % 10) + 1]

\* "%02d" % sec
TwoDigits(n) == <<Digit(n \div 10), Digit(n)>>

\* "%06d" % usec
SixDigits(n) ==
    <<Digit(n \div 100000), Digit(n \div 10000), Digit(n \div 1000),
      Digit(n \div 100), Digit(n \div 10), Digit(n)>>

\* isoformat() leaves the fraction out when the microsecond is 0.
isoformat(t) ==
    TwoDigits(t.sec) \o
    (IF t.usec = 0 THEN <<>> ELSE <<".">> \o SixDigits(t.usec))

\* The byte value of a character of a timestamp.
CharCode(c) ==
    IF c = "." THEN 46
    ELSE 47 + (CHOOSE d \in 1..10 : Digits[d] = c)

\* a < b under SQLite's BINARY collation: bytewise, a proper prefix first.
RECURSIVE TextLess(_, _)
TextLess(a, b) ==
    IF b = <<>> THEN FALSE
    ELSE IF a = <<>> THEN TRUE
    ELSE IF Head(a) = Head(b) THEN TextLess(Tail(a), Tail(b))
    ELSE CharCode(Head(a)) < CharCode(Head(b))

(***************************************************************************)
(* State of the script runs.                                               *)
(***************************************************************************)
VARIABLES
    \* script runs
    rows,             \* the documents table, in id order
    run,              \* per session: the script run's position and locals
    now,              \* the wall clock as datetime.now() last read it,
                      \* in half seconds
    extractCalls,     \* per file bytes: calls of extract_text so far
    summarizerCalls,  \* per file bytes: calls of summarizer so far
    \* chunk_text
    cText,            \* the argument text
    cMax,             \* the argument max_chars
    cChunks,          \* the list returned
    cPc,              \* "call" before, "returned" after
    \* ai_summary
    aText,            \* the argument text
    aSummaries,       \* the local summaries
    aCalls,           \* the arguments the summarizer was called with
    aResult,          \* the string returned
    aPc,              \* "loop", "returned" or "raised"
    \* Login / Signup
    USER_DB,          \* the users table, in insertion order
    session_user,     \* per session: st.session_state.user, or None
    event,            \* the last button handled, its inputs and message
    created,          \* <<username, password>> of every "Account created"
    \* display loop
    docs,             \* the rows fetched
    search,           \* the text of the search box
    displayed,        \* the docs an expander was rendered for
    dPc               \* "loop" before, "rendered" after

uploadVars == <<rows, run, now, extractCalls, summarizerCalls>>
chunkVars == <<cText, cMax, cChunks, cPc>>
summaryVars == <<aText, aSummaries, aCalls, aResult, aPc>>
authVars == <<USER_DB, session_user, event, created>>
searchVars == <<docs, search, displayed, dPc>>

vars == <<uploadVars, chunkVars, summaryVars, authVars, searchVars>>

Idle ==
    [pc |-> "idle", user |-> None, batch |-> <<>>, i |-> 0, h |-> NoHash,
     text |-> <<>>, summaries |-> <<>>, outcomes |-> <<>>, error |-> None,
     docs |-> <<>>]

\* The empty table of CREATE TABLE IF NOT EXISTS, and no script run yet.
UploadInit ==
    /\ rows = <<>>
    /\ run = [s \in Sessions |-> Idle]
    /\ now = 0
    /\ extractCalls = [b \in FileBytes |-> 0]
    /\ summarizerCalls = [b \in FileBytes |-> 0]

ChunkRest ==
    /\ cText = <<>> /\ cMax = 1 /\ cChunks = <<>> /\ cPc = "call"

SummaryRest ==
    /\ aText = <<>> /\ aSummaries = <<>> /\ aCalls = <<>>
    /\ aResult = <<>> /\ aPc = "loop"

NoEvent ==
    [s |-> None, button |-> None, username |-> None, password |-> None,
     message |-> None]

\* An empty users.json and nobody logged in.
AuthInit ==
    /\ USER_DB = <<>>
    /\ session_user = [s \in Sessions |-> None]
    /\ event = NoEvent
    /\ created = {}

SearchRest ==
    /\ docs = <<>> /\ search = <<>> /\ displayed = <<>> /\ dPc = "loop"

Init ==
    /\ UploadInit
    /\ ChunkRest /\ SummaryRest /\ AuthInit /\ SearchRest

UploadOnly == UNCHANGED <<chunkVars, summaryVars, authVars, searchVars>>

Hashes(table) == { table[k].filehash : k \in 1..Len(table) }

\* SELECT 1 FROM documents WHERE filehash=?  followed by cur.fetchone()
Exists(table, h) == h \in Hashes(table)

Pdf(s) == run[s].batch[run[s].i]

\* An exception nobody catches ends the script run.
Raise(s, exc) ==
    run' = [run EXCEPT ![s].pc = "crashed", ![s].error = exc]

\* for pdf in uploaded: the next file, or the end of the loop and on to the
\* SELECT of the search section.
Advance(r, outcome) ==
    [r EXCEPT !.outcomes = Append(@, outcome),
              !.i = @ + 1,
              !.pc = IF r.i = Len(r.batch) THEN "query" ELSE "check",
              !.h = NoHash, !.text = <<>>, !.summaries = <<>>]

\* The instant n half seconds after the first.
Instant(n) == [sec |-> n \div 2, usec |-> (n % 2) * 500000]

\* Files handed in so far, over all sessions.
Uploaded == LET RECURSIVE Sum(_)
                Sum(S) == IF S = {} THEN 0
                          ELSE LET t == CHOOSE t \in S : TRUE
                               IN  Len(run[t].batch) + Sum(S \ {t})
            IN  Sum(Sessions)

\* A script run of the logged-in user; "if uploaded:" skips the loop when
\* no file was handed in.
Start(s) ==
    /\ run[s].pc = "idle"
    /\ \E u \in Users, b \in Batches :
          /\ Uploaded + Len(b) <= MaxUploads
          /\ run' = [run EXCEPT ![s] =
                  [Idle EXCEPT !.pc = IF b = <<>> THEN "query" ELSE "check",
                               !.user = u, !.batch = b, !.i = 1]]
    /\ UNCHANGED <<rows, now, extractCalls, summarizerCalls>>
    /\ UploadOnly

\* Check without the SELECT: every file goes on to extraction.
CheckNoDedup(s) ==
    /\ run[s].pc = "check"
    /\ run' = [run EXCEPT ![s].pc = "extract",
                          ![s].h = file_hash(Pdf(s).bytes)]
    /\ UNCHANGED <<rows, now, extractCalls, summarizerCalls>>
    /\ UploadOnly

\* pdf.read(), file_hash, the SELECT, and "already exists" / continue.
Check(s) ==
    /\ run[s].pc = "check"
    /\ LET h == file_hash(Pdf(s).bytes)
       IN  IF Exists(rows, h)
           THEN run' = [run EXCEPT ![s] = Advance(@, "duplicate")]
           ELSE run' = [run EXCEPT ![s].pc = "extract", ![s].h = h]
    /\ UNCHANGED <<rows, now, extractCalls, summarizerCalls>>
    /\ UploadOnly

\* text = extract_text(pdf_bytes); PdfReader raises on bytes that are not a
\* PDF.
Extract(s) ==
    /\ run[s].pc = "extract"
    /\ extractCalls' = [extractCalls EXCEPT ![Pdf(s).bytes] = @ + 1]
    /\ IF Parses(Pdf(s).bytes)
       THEN run' = [run EXCEPT ![s].pc = "summarize",
                               ![s].text = extract_text(Pdf(s).bytes),
                               ![s].summaries = <<>>]
       ELSE Raise(s, "PdfReadError")
    /\ UNCHANGED <<rows, now, summarizerCalls>>
    /\ UploadOnly

\* One summarizer call of ai_summary's loop that returns.
Summarize(s) ==
    /\ run[s].pc = "summarize"
    /\ ~LoopDone(run[s].text, run[s].summaries)
    /\ summarizerCalls' = [summarizerCalls EXCEPT ![Pdf(s).bytes] = @ + 1]
    /\ run' = [run EXCEPT ![s].summaries =
                              SummarizeNext(run[s].text, run[s].summaries)]
    /\ UNCHANGED <<rows, now, extractCalls>>
    /\ UploadOnly

\* One summarizer call of ai_summary's loop that raises.
SummarizeFail(s) ==
    /\ run[s].pc = "summarize"
    /\ ~LoopDone(run[s].text, run[s].summaries)
    /\ summarizerCalls' = [summarizerCalls EXCEPT ![Pdf(s).bytes] = @ + 1]
    /\ Raise(s, "SummarizerError")
    /\ UNCHANGED <<rows, now, extractCalls>>
    /\ UploadOnly

\* The INSERT running with whatever summaries there are so far.
InsertReadyEarly(s) == run[s].pc = "summarize"

\* ai_summary has returned: the INSERT may run.
InsertReady(s) ==
    /\ run[s].pc = "summarize"
    /\ LoopDone(run[s].text, run[s].summaries)

\* The row the INSERT writes; id is the AUTOINCREMENT key.
NewRow(table, r, t) ==
    [id |-> Len(table) + 1,
     user |-> r.user,
     filename |-> r.batch[r.i].name,
     filehash |-> r.h,
     summary |-> JoinSummaries(r.summaries),
     content |-> r.text,
     created_at |-> isoformat(Instant(t))]

\* Insert into a table whose filehash column is not UNIQUE.
InsertNoUnique(s) ==
    /\ InsertReady(s)
    /\ \E t \in now..MaxTick :
          /\ now' = t
          /\ rows' = Append(rows, NewRow(rows, run[s], t))
          /\ run' = [run EXCEPT ![s] = Advance(@, "processed")]
    /\ UNCHANGED <<extractCalls, summarizerCalls>>
    /\ UploadOnly

\* INSERT INTO documents ...; conn.commit(); "processed".  datetime.now()
\* is evaluated for the parameters: the clock shows an instant not before
\* the one it showed last.  filehash is UNIQUE: the INSERT raises
\* sqlite3.IntegrityError when the hash is stored.
Insert(s) ==
    /\ InsertReady(s)
    /\ \E t \in now..MaxTick :
          /\ now' = t
          /\ IF Exists(rows, run[s].h)
             THEN /\ Raise(s, "IntegrityError")
                  /\ UNCHANGED rows
             ELSE /\ rows' = Append(rows, NewRow(rows, run[s], t))
                  /\ run' = [run EXCEPT ![s] = Advance(@, "processed")]
    /\ UNCHANGED <<extractCalls, summarizerCalls>>
    /\ UploadOnly

\* The rows of the table that WHERE user=? selects.
Owned(table, u) == { k \in 1..Len(table) : table[k].user = u }

\* ORDER BY created_at DESC: every order of the selected rows in which no
\* row comes before a row with a greater created_at.  SQLite leaves the
\* order of rows with equal keys unspecified.
OrderedByCreatedDesc(table, u) ==
    LET own == Owned(table, u)
        n == Cardinality(own)
    IN  { f \in [1..n -> own] :
            /\ \A i, j \in 1..n : i # j => f[i] # f[j]
            /\ \A i, j \in 1..n :
                  i < j => ~TextLess(table[f[i]].created_at,
                                     table[f[j]].created_at) }

\* SELECT id, filename, summary, created_at, content
Columns(row) ==
    <<row.id, row.filename, row.summary, row.created_at, row.content>>

\* The SELECT of the search section and docs = cur.fetchall().
QueryDocs(s) ==
    /\ run[s].pc = "query"
    /\ \E f \in OrderedByCreatedDesc(rows, run[s].user) :
          run' = [run EXCEPT ![s].pc = "done",
                             ![s].docs = [i \in DOMAIN f |-> Columns(rows[f[i]])]]
    /\ UNCHANGED <<rows, now, extractCalls, summarizerCalls>>
    /\ UploadOnly

Step(s) ==
    \/ Start(s)
    \/ Check(s)
    \/ Extract(s)
    \/ Summarize(s)
    \/ SummarizeFail(s)
    \/ Insert(s)
    \/ QueryDocs(s)

Next == \E s \in Sessions : Step(s)

Spec == Init /\ [][Next]_vars

\* No other session is in the middle of a script run.
Alone(s) ==
    \A t \in Sessions \ {s} : run[t].pc \in {"idle", "done", "crashed"}

NextSeq ==
    \E s \in Sessions :
        \/ Alone(s) /\ Start(s)
        \/ Alone(s) /\ Check(s)
        \/ Alone(s) /\ Extract(s)
        \/ Alone(s) /\ Summarize(s)
        \/ Alone(s) /\ SummarizeFail(s)
        \/ Alone(s) /\ Insert(s)
        \/ Alone(s) /\ QueryDocs(s)

\* Script runs one after the other.
SpecSeq == Init /\ [][NextSeq]_vars

(***************************************************************************)
(* Properties of the script runs.                                          *)
(***************************************************************************)
\* Rows of the table that hold digest h.
RowsWith(table, h) == { k \in 1..Len(table) : table[k].filehash = h }

C1_NoSharedHash ==
    \A i, j \in 1..Len(rows) :
        rows[i].filehash = rows[j].filehash => i = j

C1_StoredBytesAreDuplicate ==
    \A s \in Sessions :
        ( /\ run[s].pc = "check"
          /\ Exists(rows, file_hash(Pdf(s).bytes))
          /\ run'[s] # run[s] )
        => /\ rows' = rows
           /\ run'[s].outcomes = Append(run[s].outcomes, "duplicate")

\* C1: no two rows of the documents table ever share a content hash, and an
\* upload (by any user, the owner of the stored row or another) of bytes
\* whose hash is stored when it is looked up adds no row and is reported
\* as a duplicate.
C1_UniqueContentHash ==
    []C1_NoSharedHash /\ [][C1_StoredBytesAreDuplicate]_vars

\* C1 witness: one user's document is stored, and another user's upload of
\* the same bytes was reported as a duplicate without adding a row.
C1_Witness ==
    \E s \in Sessions :
        /\ Len(rows) = 1
        /\ rows[1].user # run[s].user
        /\ Len(run[s].outcomes) >= 1
        /\ run[s].outcomes[1] = "duplicate"
        /\ file_hash(run[s].batch[1].bytes) = rows[1].filehash

\* C2: when two runs pass the exists check for the same hash before either
\* inserts, the run whose INSERT meets the constraint failure treats it as
\* a duplicate outcome for that file and goes on, instead of being ended
\* by it.
C2_ConstraintFailureIsDuplicate ==
    \A s \in Sessions :
        run[s].error = "IntegrityError"
        => /\ run[s].pc # "crashed"
           /\ run[s].outcomes # <<>>
           /\ run[s].outcomes[Len(run[s].outcomes)] = "duplicate"

\* C3: a file that cannot be parsed as a PDF does not keep the files after
\* it in the batch from being processed: no run is ended by it with files
\* of its batch left.
C3_BatchIsolation ==
    \A s \in Sessions :
        (run[s].pc = "crashed" /\ run[s].error = "PdfReadError")
        => run[s].i = Len(run[s].batch)

C4_DedupSkipsWork ==
    \A s \in Sessions :
        ( /\ run[s].pc = "check"
          /\ Exists(rows, file_hash(Pdf(s).bytes))
          /\ run'[s] # run[s] )
        => /\ run'[s].outcomes = Append(run[s].outcomes, "duplicate")
           /\ run'[s].pc \in {"check", "query"}
           /\ extractCalls' = extractCalls
           /\ summarizerCalls' = summarizerCalls

C4_StoredIsFrozen ==
    \A b \in FileBytes :
        Exists(rows, file_hash(b))
        => /\ extractCalls'[b] = extractCalls[b]
           /\ summarizerCalls'[b] = summarizerCalls[b]
           /\ Cardinality(RowsWith(rows', file_hash(b))) = 1

C4_OneDocumentOneExtraction ==
    \A s \in Sessions : \A k \in 1..Len(run[s].outcomes) :
        run[s].outcomes[k] = "duplicate"
        => LET b == run[s].batch[k].bytes
           IN  /\ Cardinality(RowsWith(rows, file_hash(b))) = 1
               /\ (\A t \in Sessions : run[t].error = None)
                     => extractCalls[b] = 1

\* C4: with script runs one after the other, a file whose hash is stored
\* when it is looked up is reported as a duplicate and goes to neither
\* extract_text nor the summarizer; once bytes are stored, no later upload
\* of them extracts, summarizes or adds a row; and bytes uploaded twice,
\* with no upload ended by an exception, are stored once and extracted
\* once.
C4_DedupPrecedesWork ==
    /\ [][C4_DedupSkipsWork]_vars
    /\ [][C4_StoredIsFrozen]_vars
    /\ []C4_OneDocumentOneExtraction

\* C4 witness: the same bytes were uploaded twice in one batch; the second
\* was reported as a duplicate, one row is stored, one extraction ran.
C4_Witness ==
    \E s \in Sessions :
        /\ run[s].pc = "done"
        /\ run[s].outcomes = <<"processed", "duplicate">>
        /\ run[s].batch[1].bytes = "A" /\ run[s].batch[2].bytes = "A"
        /\ Len(rows) = 1
        /\ extractCalls["A"] = 1

\* The summary ai_summary returns for a text when every summarizer call
\* returns.
CompleteSummary(text) ==
    LET chunks == chunk_text(text, 2000)
        n == Min(Len(chunks), 5)
    IN  Join(<<" ">>, [k \in 1..n |-> summarizer(chunks[k])])

C5_RowsAreComplete ==
    \A k \in 1..Len(rows) : rows[k].summary = CompleteSummary(rows[k].content)

C5_FailureLeavesStore ==
    \A s \in Sessions :
        /\ (run[s].error # "SummarizerError" /\ run'[s].error = "SummarizerError")
              => rows' = rows
        /\ run[s].pc = "crashed" => run'[s] = run[s]

C5_InsertAfterSummaries ==
    rows' # rows
    => \E s \in Sessions :
          /\ run[s].pc = "summarize"
          /\ Len(run[s].summaries)
                = Min(Len(chunk_text(run[s].text, 2000)), 5)
          /\ Len(rows') = Len(rows) + 1
          /\ rows'[Len(rows')].filehash = run[s].h

\* C5: a row is inserted only by a run whose every attempted chunk summary
\* has completed, and holds the complete summary of its text; a summarizer
\* call that fails ends the run and leaves the table as it was, and the
\* ended run never writes.
C5_AllOrNothing ==
    /\ []C5_RowsAreComplete
    /\ [][C5_InsertAfterSummaries]_vars
    /\ [][C5_FailureLeavesStore]_vars

\* C5 witness: the summarizer failed on the second chunk of a file, after
\* the first chunk's summary had completed, and no row holds the file.
C5_Witness ==
    \E s \in Sessions :
        /\ run[s].error = "SummarizerError"
        /\ Len(run[s].summaries) = 1
        /\ ~Exists(rows, run[s].h)

\* C6: the fetched docs are the owner's rows by created_at descending, and
\* of two docs with equal created_at the one with the larger row id comes
\* first.
C6_RetrievalOrder ==
    \A s \in Sessions :
        run[s].pc = "done"
        => \A i, j \in 1..Len(run[s].docs) :
              i < j
              => LET a == run[s].docs[i]
                     b == run[s].docs[j]
                 IN  \/ TextLess(b[4], a[4])
                     \/ (a[4] = b[4] /\ a[1] > b[1])

(***************************************************************************)
(* chunk_text as a function of its arguments.                              *)
(***************************************************************************)
\* Every sequence over S of up to n elements.
SeqsUpTo(S, n) == UNION { [1..k -> S] : k \in 0..n }

ChunkOnly == UNCHANGED <<uploadVars, summaryVars, authVars, searchVars>>

InitChunk ==
    /\ cText \in SeqsUpTo({"a", "b"}, MaxLen)
    /\ cMax \in 1..MaxM
    /\ cChunks = <<>>
    /\ cPc = "call"
    /\ UploadInit /\ SummaryRest /\ AuthInit /\ SearchRest

ChunkCall ==
    /\ cPc = "call"
    /\ cChunks' = chunk_text(cText, cMax)
    /\ cPc' = "returned"
    /\ UNCHANGED <<cText, cMax>>
    /\ ChunkOnly

SpecChunk == InitChunk /\ [][ChunkCall]_vars

\* The concatenation of a sequence of sequences.
RECURSIVE Concat(_)
Concat(seqs) == IF seqs = <<>> THEN <<>> ELSE Head(seqs) \o Concat(Tail(seqs))

\* C8: chunk_text(T, M), M > 0, returns non-empty chunks of at most M
\* characters, each the substring of T that starts where the chunk before
\* it ended, whose concatenation in order is T; one chunk when
\* 0 < len(T) <= M, none when T is empty.
C8_ChunkReconstruction ==
    cPc = "returned"
    => /\ \A k \in 1..Len(cChunks) :
             /\ Len(cChunks[k]) >= 1
             /\ Len(cChunks[k]) <= cMax
             /\ LET start == Len(Concat(SubSeq(cChunks, 1, k - 1)))
                IN  cChunks[k]
                       = SubSeq(cText, start + 1, start + Len(cChunks[k]))
       /\ Concat(cChunks) = cText
       /\ (Len(cText) >= 1 /\ Len(cText) <= cMax) => Len(cChunks) = 1
       /\ cText = <<>> => cChunks = <<>>

\* C8 witness: a text longer than the maximum came back as several chunks,
\* the last one shorter than the maximum.
C8_Witness ==
    /\ cPc = "returned"
    /\ Len(cText) = 4 /\ cMax = 3
    /\ Len(cChunks) = 2
    /\ Len(cChunks[2]) = 1

(***************************************************************************)
(* ai_summary as a function of its argument.                               *)
(***************************************************************************)
SummaryOnly == UNCHANGED <<uploadVars, chunkVars, authVars, searchVars>>

\* Lengths around every multiple of max_chars, up to MaxChunks + 1 chunks.
TextLengths ==
    { k * max_chars + r : k \in 0..MaxChunks, r \in {0, 1, max_chars - 1} }

InitSummary ==
    /\ aText \in { PageText(n) : n \in TextLengths }
    /\ aSummaries = <<>>
    /\ aCalls = <<>>
    /\ aResult = <<>>
    /\ aPc = "loop"
    /\ UploadInit /\ ChunkRest /\ AuthInit /\ SearchRest

\* One iteration of the loop whose summarizer call returns.
AiSummaryCall ==
    /\ aPc = "loop"
    /\ ~LoopDone(aText, aSummaries)
    /\ aCalls' = Append(aCalls, FirstChunks(aText)[Len(aSummaries) + 1])
    /\ aSummaries' = SummarizeNext(aText, aSummaries)
    /\ UNCHANGED <<aText, aResult, aPc>>
    /\ SummaryOnly

\* One iteration of the loop whose summarizer call raises.
AiSummaryRaise ==
    /\ aPc = "loop"
    /\ ~LoopDone(aText, aSummaries)
    /\ aCalls' = Append(aCalls, FirstChunks(aText)[Len(aSummaries) + 1])
    /\ aPc' = "raised"
    /\ UNCHANGED <<aText, aSummaries, aResult>>
    /\ SummaryOnly

\* return " ".join(summaries)
AiSummaryReturn ==
    /\ aPc = "loop"
    /\ LoopDone(aText, aSummaries)
    /\ aResult' = JoinSummaries(aSummaries)
    /\ aPc' = "returned"
    /\ UNCHANGED <<aText, aSummaries, aCalls>>
    /\ SummaryOnly

NextSummary == AiSummaryCall \/ AiSummaryRaise \/ AiSummaryReturn

SpecSummary == InitSummary /\ [][NextSummary]_vars

\* C7: for a text of k chunks, the summarizer is called on the chunks in
\* chunk order and never on a chunk after the first min(k, 5); when
\* ai_summary returns it has made exactly min(k, 5) calls and returns their
\* summaries, in that order, with a single space between them; for the
\* empty text it makes no call and returns the empty string.
C7_ChunkCapAndOrder ==
    LET chunks == chunk_text(aText, 2000)
        n == Min(Len(chunks), 5)
    IN  /\ Len(aCalls) <= n
        /\ \A k \in 1..Len(aCalls) : aCalls[k] = chunks[k]
        /\ aPc = "returned"
              => /\ Len(aCalls) = n
                 /\ aResult
                       = Join(<<" ">>, [k \in 1..n |-> summarizer(chunks[k])])
        /\ (aPc = "returned" /\ aText = <<>>)
              => (aCalls = <<>> /\ aResult = <<>>)

\* C7 witness: ai_summary returned for a text of more than 5 chunks, after
\* 5 calls.
C7_Witness ==
    /\ aPc = "returned"
    /\ Len(chunk_text(aText, 2000)) > 5
    /\ Len(aCalls) = 5

(***************************************************************************)
(* The Login / Signup form and Logout.                                     *)
(***************************************************************************)
AuthOnly == UNCHANGED <<uploadVars, chunkVars, summaryVars, searchVars>>

Passwords == {"pw1", "pw2"}

\* hashlib.sha256(password.encode()).hexdigest()
password_digest(p) == Sha256(p)

\* USER_DB.get(q.username == username) finds a document.
HasUser(db, u) == \E k \in 1..Len(db) : db[k].username = u

\* USER_DB.get((q.username == username) & (q.password == digest)) finds a
\* document.
HasCredentials(db, u, digest) ==
    \E k \in 1..Len(db) : db[k].username = u /\ db[k].password = digest

Handled(s, button, u, p, message) ==
    [s |-> s, button |-> button, username |-> u, password |-> p,
     message |-> message]

\* Login that looks the user up by username alone.
LoginAnyPassword(s, u, p) ==
    /\ session_user[s] = None
    /\ IF HasUser(USER_DB, u)
       THEN /\ session_user' = [session_user EXCEPT ![s] = u]
            /\ event' = Handled(s, "Login", u, p, "Logged in")
       ELSE /\ event' = Handled(s, "Login", u, p, "Invalid credentials")
            /\ UNCHANGED session_user
    /\ UNCHANGED <<USER_DB, created>>
    /\ AuthOnly

\* The Login button, on the form shown while nobody is logged in.
Login(s, u, p) ==
    /\ session_user[s] = None
    /\ IF HasCredentials(USER_DB, u, password_digest(p))
       THEN /\ session_user' = [session_user EXCEPT ![s] = u]
            /\ event' = Handled(s, "Login", u, p, "Logged in")
       ELSE /\ event' = Handled(s, "Login", u, p, "Invalid credentials")
            /\ UNCHANGED session_user
    /\ UNCHANGED <<USER_DB, created>>
    /\ AuthOnly

\* The Signup button, on the same form.
Signup(s, u, p) ==
    /\ session_user[s] = None
    /\ IF HasUser(USER_DB, u)
       THEN /\ event' = Handled(s, "Signup", u, p, "User exists")
            /\ UNCHANGED <<USER_DB, created>>
       ELSE /\ USER_DB' = Append(USER_DB, [username |-> u,
                                           password |-> password_digest(p)])
            /\ created' = created \cup {<<u, p>>}
            /\ event' = Handled(s, "Signup", u, p, "Account created")
    /\ UNCHANGED session_user
    /\ AuthOnly

\* The Logout button of the sidebar.
Logout(s) ==
    /\ session_user[s] # None
    /\ session_user' = [session_user EXCEPT ![s] = None]
    /\ event' = Handled(s, "Logout", None, None, None)
    /\ UNCHANGED <<USER_DB, created>>
    /\ AuthOnly

NextAuth ==
    \E s \in Sessions :
        \/ \E u \in Users, p \in Passwords : Login(s, u, p)
        \/ \E u \in Users, p \in Passwords : Signup(s, u, p)
        \/ Logout(s)

SpecAuth == Init /\ [][NextAuth]_vars

C9_UsernamesUnique ==
    \A i, j \in 1..Len(USER_DB) :
        USER_DB[i].username = USER_DB[j].username => i = j

\* What a step of the form does, told by the button it handled (event').
C9_Handlers ==
    LET e == event'
        signedUp == \E p \in Passwords : <<e.username, p>> \in created
    IN  /\ (e.button = "Login" /\ <<e.username, e.password>> \in created)
              => /\ e.message = "Logged in"
                 /\ session_user'[e.s] = e.username
        /\ (e.button = "Login" /\ signedUp
               /\ <<e.username, e.password>> \notin created)
              => /\ e.message = "Invalid credentials"
                 /\ session_user' = session_user
        /\ (e.button = "Signup" /\ signedUp)
              => /\ e.message = "User exists"
                 /\ USER_DB' = USER_DB
        /\ \A k \in 1..Len(USER_DB) :
              k <= Len(USER_DB') /\ USER_DB'[k] = USER_DB[k]

\* C9: once a signup of u with p has succeeded, a login of u with p logs u
\* in, a login of u with another password is refused and leaves the
\* session's user as it was, and a signup of u with any password is
\* refused and leaves the users table as it was; no stored record ever
\* changes and no two records share a username.
C9_AuthRoundTrip ==
    []C9_UsernamesUnique /\ [][C9_Handlers]_vars

\* C9 witness: after two users signed up, one of them logged in with the
\* password of the signup.
C9_Witness ==
    /\ Len(USER_DB) = 2
    /\ event.button = "Login"
    /\ <<event.username, event.password>> \in created
    /\ session_user[event.s] = event.username

(***************************************************************************)
(* The display loop as a function of the fetched docs and the query.       *)
(***************************************************************************)
SearchOnly == UNCHANGED <<uploadVars, chunkVars, summaryVars, authVars>>

\* str.lower() on one character.
LowerChar(c) ==
    CASE c = "A" -> "a"
      [] c = "B" -> "b"
      [] OTHER -> c

\* text.lower()
lower(text) == [k \in 1..Len(text) |-> LowerChar(text[k])]

\* sub in text
In(sub, text) ==
    \E o \in 0..(Len(text) - Len(sub)) :
        SubSeq(text, o + 1, o + Len(sub)) = sub

\* The test of the display loop with the lower() calls left out.
SkippedCaseSensitive(query, summary) ==
    query # <<>> /\ ~In(query, summary)

\* if search and search.lower() not in summary.lower(): continue
Skipped(query, summary) ==
    query # <<>> /\ ~In(lower(query), lower(summary))

\* A fetched row (id, filename, summary, created_at, content).
Doc(k, summary) == <<k, "doc.pdf", summary, <<"0", "0">>, <<>>>>

InitSearch ==
    /\ \E n \in 0..MaxDocs :
          \E f \in [1..n -> SeqsUpTo({"a", "B"}, MaxSummaryLen)] :
              docs = [k \in 1..n |-> Doc(k, f[k])]
    /\ search \in SeqsUpTo({"a", "A", "b"}, MaxQueryLen)
    /\ displayed = <<>>
    /\ dPc = "loop"
    /\ UploadInit /\ ChunkRest /\ SummaryRest /\ AuthInit

\* for i, (doc_id, name, summary, created, content) in enumerate(docs): an
\* expander for every doc the test does not skip.
Display ==
    /\ dPc = "loop"
    /\ displayed' = SelectSeq(docs, LAMBDA d : ~Skipped(search, d[3]))
    /\ dPc' = "rendered"
    /\ UNCHANGED <<docs, search>>
    /\ SearchOnly

SpecSearch == InitSearch /\ [][Display]_vars

\* Characters a and b are the same letter, whatever their case.
SameLetter(a, b) ==
    \/ a = b
    \/ {a, b} \in {{"a", "A"}, {"b", "B"}}

\* query occurs in summary, case ignored.
ContainsIgnoringCase(summary, query) ==
    \E o \in 0..(Len(summary) - Len(query)) :
        \A j \in 1..Len(query) : SameLetter(summary[o + j], query[j])

\* C10: the displayed docs are exactly the docs whose summary contains the
\* query as a case-insensitive substring, in the order of the fetched list;
\* with an empty query every doc is displayed, in that order.
C10_SearchFilter ==
    dPc = "rendered"
    => /\ displayed
             = SelectSeq(docs, LAMBDA d : ContainsIgnoringCase(d[3], search))
       /\ search = <<>> => displayed = docs

\* C10 witness: of two docs, only the second was displayed, for a query
\* that matches it in another case.
C10_Witness ==
    /\ dPc = "rendered"
    /\ search = <<"A">>
    /\ Len(docs) = 2
    /\ docs[2][3] = <<"B", "a">>
    /\ displayed = <<docs[2]>>

====
